---- MODULE Spec2Model ----
(***************************************************************************)
(* A model of anki-mcp-server: the AnkiConnect transport client (request   *)
(* with retry, pacing and mock mode), the batch hydrator (getCardsInfo),   *)
(* the sampler (getRandomCardIds) and the call-tool dispatcher with its    *)
(* two tools, get_leech_cards and tag_reviewed_cards.                      *)
(*                                                                         *)
(* A tool invocation is an async handler: it is modelled as a sequence of  *)
(* steps, one per await of a transport call.  The collaborator (Anki) is   *)
(* the environment: each network attempt resolves with a well-formed       *)
(* response or rejects with an axios error code.                           *)
(***************************************************************************)
EXTENDS Integers, Sequences, FiniteSets, TLC

VARIABLES
    mockMode,   \* ANKI_MOCK_MODE, read once at startup
    today,      \* the local date new Date() reports
    pc,         \* position of the call-tool handler (or of a direct client call)
    req,        \* the tool request being handled: [name, arguments]
    call,       \* the transport call in progress or last finished
    issued,     \* actions passed to request() during the current invocation
    locals,     \* local variables of the handler that live across awaits
    resp,       \* what the call-tool handler produced for the current request
    sampler,    \* the arrays of the random-selection test script and its last call
    hydration   \* a run of the record loop of getCardsInfo on given bulk results

vars == <<mockMode, today, pc, req, call, issued, locals, resp, sampler, hydration>>

----------------------------------------------------------------------------
(* Bounds of the model *)

\* card identifiers the collaborator knows are 1..MaxCards
MaxCards == 2
\* note identifiers the collaborator knows are 101 .. 100+MaxNotes
MaxNotes == 2
\* the test script samples lists of up to MaxIds identifiers, taken from 1..MaxIds
MaxIds == 3
\* the record loop of the hydrator is run on up to MaxRecords card-level records
MaxRecords == 11

----------------------------------------------------------------------------
(* JavaScript values that cross an untyped boundary (tool arguments,       *)
(* response fields): tagged so that values of different types compare.     *)

JNull == [t |-> "null"]
JUndef == [t |-> "undefined"]
JStr(s) == [t |-> "string", str |-> s]
JNum(n) == [t |-> "number", num |-> n]
JBool(b) == [t |-> "boolean", bool |-> b]
JArr(a) == [t |-> "array", arr |-> a]

\* JavaScript truthiness, as used by if (x), !x and x || y
Truthy(v) ==
    CASE v.t = "null" -> FALSE
      [] v.t = "undefined" -> FALSE
      [] v.t = "string" -> v.str # ""
      [] v.t = "number" -> v.num # 0
      [] v.t = "boolean" -> v.bool
      [] OTHER -> TRUE

----------------------------------------------------------------------------
(* Helpers over sequences *)

Contains(s, x) == \E i \in DOMAIN s : s[i] = x

\* a variant that keeps the repeats
UniqueKeepsAll(s) == s

RECURSIVE Unique(_)
\* [...new Set(s)]: the distinct elements of s in order of first occurrence
Unique(s) ==
    IF s = <<>> THEN <<>>
    ELSE LET front == Unique(SubSeq(s, 1, Len(s) - 1))
             last == s[Len(s)]
         IN IF Contains(front, last) THEN front ELSE Append(front, last)

\* all sequences over S of length n with no repeated element
DistinctSeqs(S, n) ==
    {s \in [1..n -> S] : \A i, j \in 1..n : i # j => s[i] # s[j]}

----------------------------------------------------------------------------
(* Program constants *)

DefaultRetries == 3
PacingDelayMs == 50
MockCardId == 1234567890
MockNoteOffset == 1000000
MockFactor == 2500
MockInterval == 10
MockReps == 5
MockLapses == 2

----------------------------------------------------------------------------
(* Errors (JavaScript exceptions): a name and the parts of the message *)

NoError == [name |-> "", message |-> <<>>]
Error(parts) == [name |-> "Error", message |-> parts]
TypeError(what) == [name |-> "TypeError", message |-> <<what>>]
McpError(parts) == [name |-> "McpError", message |-> parts]

RefusedMessage == <<"Could not connect to Anki. Is Anki running with AnkiConnect installed?">>
NetworkMessage(code) == <<"Network error: ", code>>
RemoteMessage(text) == <<"AnkiConnect error: ", text>>

----------------------------------------------------------------------------
(* The collaborator: what a network attempt can produce *)

Cards == 1..MaxCards
Notes == 101..(100 + MaxNotes)

\* axios error codes a rejected post can carry
AxiosCodes == {"ECONNREFUSED", "ECONNRESET", "ECONNABORTED", "ERR_BAD_RESPONSE"}

\* texts the collaborator puts in a non-null error field
RemoteErrorTexts == {"", "collection is not available"}

\* the collaborator's card-level record of card c, which belongs to note n
RawCardInfo(c, n) ==
    [cardId |-> c, note |-> n, deckName |-> "Default", modelName |-> "Basic",
     interval |-> c + 1, factor |-> 1300 + 400 * c, reps |-> 2 * c, lapses |-> c]

\* the collaborator's note-level record of note n
RawNoteInfo(n) ==
    [noteId |-> n, modelName |-> "Basic", tags |-> <<"leech">>,
     fields |-> [Front |-> [value |-> "q", order |-> 0],
                 Back |-> [value |-> "a", order |-> 1]]]

\* the subsequences of s (order kept)
SubSeqs(s) ==
    {SelectSeq([i \in DOMAIN s |-> <<i, s[i]>>], LAMBDA p : p[1] \in keep) :
        keep \in SUBSET (DOMAIN s)}

Project(pairs) == [i \in DOMAIN pairs |-> pairs[i][2]]

\* the result fields the collaborator can answer an action with
CollaboratorResults(action, params) ==
    CASE action = "version" -> {JNum(6)}
      [] action = "findCards" ->
            {JArr(s) : s \in UNION {DistinctSeqs(Cards, n) : n \in 0..MaxCards}}
      [] action = "cardsInfo" ->
            LET cards == IF "cards" \in DOMAIN params THEN params.cards ELSE <<>>
            IN {JArr(<<>>)} \cup
               {JArr([i \in DOMAIN cards |-> RawCardInfo(cards[i], f[i])]) :
                   f \in [DOMAIN cards -> Notes]}
      [] action = "notesInfo" ->
            LET notes == IF "notes" \in DOMAIN params THEN params.notes ELSE <<>>
            IN {JArr(Project(p)) :
                   p \in SubSeqs([i \in DOMAIN notes |-> RawNoteInfo(notes[i])])}
      [] action = "addTags" -> {JBool(TRUE), JBool(FALSE)}
      [] OTHER -> {}

\* the well-formed response bodies {result, error} an attempt can resolve with
WellFormedResponses(action, params) ==
    {[result |-> r, error |-> JNull] :
        r \in CollaboratorResults(action, params) \cup {JNull}}
    \cup {[result |-> JNull, error |-> JStr(m)] : m \in RemoteErrorTexts}

----------------------------------------------------------------------------
(* AnkiConnectClient.request *)

NoResponse == [result |-> JUndef, error |-> JUndef]
NoParams == [none |-> TRUE]

NoCall ==
    [state |-> "none", action |-> "", params |-> NoParams, retries |-> 0,
     log |-> <<>>, response |-> NoResponse, result |-> JUndef, error |-> NoError]

EvPost == [e |-> "post"]
EvResponse == [e |-> "response"]
EvReject(code) == [e |-> "reject", code |-> code]
EvDelay(ms) == [e |-> "delay", ms |-> ms]
\* the record loop of getCardsInfo takes up the record at 0-based index k
EvCard(k) == [e |-> "card", index |-> k]

\* params.cards || [] and params.notes || []
ParamOr(params, field) ==
    IF field \in DOMAIN params THEN params[field] ELSE <<>>

MockCardInfo(cardId) ==
    [cardId |-> cardId, note |-> cardId + MockNoteOffset, deckName |-> "Mock Deck",
     modelName |-> "Mock Model", interval |-> MockInterval, factor |-> MockFactor,
     reps |-> MockReps, lapses |-> MockLapses]

\* a variant whose note records carry another identifier
MockNoteInfoOtherId(noteId) ==
    [noteId |-> noteId + 1, modelName |-> "Mock Model", tags |-> <<"leech", "mock_tag">>,
     fields |-> [Front |-> [value |-> "Mock front content", order |-> 0],
                 Back |-> [value |-> "Mock back content", order |-> 1]]]

MockNoteInfo(noteId) ==
    [noteId |-> noteId, modelName |-> "Mock Model", tags |-> <<"leech", "mock_tag">>,
     fields |-> [Front |-> [value |-> "Mock front content", order |-> 0],
                 Back |-> [value |-> "Mock back content", order |-> 1]]]

\* a variant in which every action falls to the default case
getMockResponseDefault(action, params) == JNull

getMockResponse(action, params) ==
    CASE action = "version" -> JStr("6")
      [] action = "findCards" -> JArr(<<MockCardId, MockCardId + 1, MockCardId + 2>>)
      [] action = "cardsInfo" ->
            LET cardIds == ParamOr(params, "cards")
            IN JArr([i \in DOMAIN cardIds |-> MockCardInfo(cardIds[i])])
      [] action = "notesInfo" ->
            LET noteIds == ParamOr(params, "notes")
            IN JArr([i \in DOMAIN noteIds |-> MockNoteInfo(noteIds[i])])
      [] action = "addTags" -> JBool(TRUE)
      [] OTHER -> JNull

\* if (response.data.error)
ResponseHasError(response) == Truthy(response.error)

\* a variant that never recognises a refused connection
IsRefusedNever(code) == FALSE

\* axiosError.code === "ECONNREFUSED"
IsRefused(code) == code = "ECONNREFUSED"

\* a variant that gives up one retry early
ShouldRetryTwice(code, retries) == code = "ECONNRESET" /\ retries > 1

\* a variant that retries whatever the error code
ShouldRetryAnyCode(code, retries) == retries > 0

\* axiosError.code === "ECONNRESET" && retries > 0
ShouldRetry(code, retries) == code = "ECONNRESET" /\ retries > 0

\* a variant whose wait does not grow
BackoffDelayConstant(retries) == 500

\* 500 * Math.pow(2, 3 - retries)
BackoffDelay(retries) == 500 * 2 ^ (3 - retries)

\* a variant that returns without the pacing wait
SuccessEventsNoDelay == <<EvResponse>>

\* the events of a successful attempt: the response, then delay(50)
SuccessEvents == <<EvResponse, EvDelay(PacingDelayMs)>>

\* a variant that ignores the mock-mode switch
UsesMockNever(mock) == FALSE

\* mock mode returns before anything else is done
UsesMock(mock) == mock

\* a variant in which a call starts with what the call before it left of
\* the retry budget
StartRequestSharedBudget(action, params) ==
    LET retries == IF call.state = "none" THEN DefaultRetries ELSE call.retries
    IN IF UsesMock(mockMode)
       THEN [NoCall EXCEPT !.state = "returned", !.action = action, !.params = params,
                           !.retries = retries,
                           !.result = getMockResponse(action, params)]
       ELSE [NoCall EXCEPT !.state = "inflight", !.action = action, !.params = params,
                           !.retries = retries, !.log = <<EvPost>>]

\* request(action, params) with retries = 3: up to the first await
StartRequest(action, params) ==
    IF UsesMock(mockMode)
    THEN [NoCall EXCEPT !.state = "returned", !.action = action, !.params = params,
                        !.retries = DefaultRetries,
                        !.result = getMockResponse(action, params)]
    ELSE [NoCall EXCEPT !.state = "inflight", !.action = action, !.params = params,
                        !.retries = DefaultRetries, !.log = <<EvPost>>]

\* the post resolved with a response body
OnResolve(c, response) ==
    IF ResponseHasError(response)
    THEN \* thrown inside try, and rethrown by catch: not an axios error
         [c EXCEPT !.state = "thrown", !.response = response,
                   !.log = Append(c.log, EvResponse),
                   !.error = Error(RemoteMessage(response.error.str))]
    ELSE [c EXCEPT !.state = "returned", !.response = response,
                   !.log = c.log \o SuccessEvents,
                   !.result = response.result]

\* the post rejected with an axios error carrying code
OnReject(c, code) ==
    IF IsRefused(code)
    THEN [c EXCEPT !.state = "thrown", !.log = Append(c.log, EvReject(code)),
                   !.error = Error(RefusedMessage)]
    ELSE IF ShouldRetry(code, c.retries)
    THEN \* delay, then request(action, params, retries - 1) posts again
         [c EXCEPT !.retries = c.retries - 1,
                   !.log = c.log \o <<EvReject(code), EvDelay(BackoffDelay(c.retries)), EvPost>>]
    ELSE [c EXCEPT !.state = "thrown", !.log = Append(c.log, EvReject(code)),
                   !.error = Error(NetworkMessage(code))]

\* a network attempt resolves
PostResolves ==
    /\ call.state = "inflight"
    /\ \E response \in WellFormedResponses(call.action, call.params) :
            call' = OnResolve(call, response)
    /\ UNCHANGED <<hydration, sampler, mockMode, today, pc, req, issued, locals, resp>>

\* a network attempt rejects
PostRejects ==
    /\ call.state = "inflight"
    /\ \E code \in AxiosCodes : call' = OnReject(call, code)
    /\ UNCHANGED <<hydration, sampler, mockMode, today, pc, req, issued, locals, resp>>

----------------------------------------------------------------------------
(* Tool requests and response envelopes *)

\* the default tag prefix (the literal default of generateReviewedTag)
DefaultPrefix == "minaoshi"

NoPayload == [none |-> TRUE]
NoResp ==
    [state |-> "none", isError |-> FALSE, text |-> <<>>, payload |-> NoPayload,
     error |-> NoError]

\* return { content: [{type: "text", text}], isError }
Returned(isError, text, payload) ==
    [state |-> "returned", isError |-> isError, text |-> text, payload |-> payload,
     error |-> NoError]

\* an exception leaving the code that was running
Thrown(error) ==
    [state |-> "thrown", isError |-> FALSE, text |-> <<>>, payload |-> NoPayload,
     error |-> error]

Arguments(detailed, count, cardIds, prefix) ==
    [detailed |-> detailed, count |-> count, card_ids |-> cardIds,
     custom_tag_prefix |-> prefix]

NoReq == [name |-> "", arguments |-> Arguments(JUndef, JUndef, JUndef, JUndef)]

\* the get_leech_cards requests a client of the server can send
LeechRequests ==
    {[name |-> "get_leech_cards", arguments |-> Arguments(d, c, JUndef, JUndef)] :
        d \in {JUndef, JBool(TRUE), JBool(FALSE)},
        c \in {JUndef, JStr("2")} \cup {JNum(n) : n \in (-1)..(MaxCards + 1)}}

\* the tag_reviewed_cards requests a client of the server can send
TagRequests ==
    {[name |-> "tag_reviewed_cards", arguments |-> Arguments(JUndef, JUndef, ids, p)] :
        ids \in {JUndef, JStr("1,2")}
                \cup {JArr(s) : s \in UNION {[1..n -> Cards] : n \in 0..MaxCards}},
        p \in {JUndef, JStr(""), JStr("X")}}

\* the requests a client of the server can send
ToolRequests ==
    LeechRequests \cup TagRequests \cup
    {[name |-> "delete_cards", arguments |-> Arguments(JUndef, JUndef, JUndef, JUndef)]}

NoLocals ==
    [isAvailable |-> FALSE, detailed |-> TRUE, count |-> JUndef, allLeechCardIds |-> <<>>,
     leechCardIds |-> <<>>, cardsInfo |-> <<>>, reviewedTag |-> "", timeline |-> <<>>]

ConnectivityText ==
    <<"Could not connect to Anki. Please make sure Anki is running and AnkiConnect is installed.">>
NoneFoundText == <<"No leech cards found in Anki.">>
NoCardIdsText ==
    <<"Error: No card IDs provided. Please provide an array of card IDs to tag.">>
TagFailedText ==
    <<"Failed to add tags to cards. Please check if the card IDs are valid.">>

\* a variant without the try/catch
TryCatchRethrows(outcome) == outcome

\* try { ... } catch (error) { return { text: `Error: ${errorMessage}`, isError: true } }
TryCatch(outcome) ==
    IF outcome.state = "thrown"
    THEN Returned(TRUE, <<"Error: ">> \o outcome.error.message, NoPayload)
    ELSE outcome

\* a variant without the catch
IsAvailableNoCatch(c) ==
    IF c.state = "returned" THEN [state |-> "returned", value |-> TRUE]
    ELSE [state |-> "thrown", error |-> c.error]

\* isAvailable: try { await request("version"); return true } catch { return false }
isAvailable(c) == [state |-> "returned", value |-> c.state = "returned"]

\* a variant with the mock-mode test inverted
ShortCircuitsInverted(available, mock) == ~available /\ mock

\* if (!isAvailable && !ANKI_MOCK_MODE)
ShortCircuits(available, mock) == ~available /\ ~mock

\* a variant that forgets the empty array
InvalidCardIdsAllowsEmpty(cardIds) ==
    IF ~Truthy(cardIds) THEN TRUE ELSE cardIds.t # "array"

\* !cardIds || !Array.isArray(cardIds) || cardIds.length === 0
InvalidCardIds(cardIds) ==
    IF ~Truthy(cardIds) THEN TRUE
    ELSE IF cardIds.t # "array" THEN TRUE
    ELSE Len(cardIds.arr) = 0

\* a variant that asks for detailed === true
DetailedOfStrictTrue(arguments) == arguments.detailed = JBool(TRUE)

\* a variant without the test for an empty search result
NoneFoundNever(allLeechCardIds) == FALSE

\* if (allLeechCardIds.length === 0)
NoneFound(allLeechCardIds) == Len(allLeechCardIds) = 0

\* request.params.arguments?.detailed !== false
DetailedOf(arguments) == arguments.detailed # JBool(FALSE)

\* typeof arguments?.count === "number" ? arguments.count : undefined
CountOf(arguments) ==
    IF arguments.count.t = "number" THEN arguments.count ELSE JUndef

----------------------------------------------------------------------------
(* The sampler: AnkiMcpServer.getRandomCardIds *)

\* Indices are 1-based here: i runs from n down to 2, j is in 1..i.

\* a variant whose draw never picks index i itself
DrawsBelowIndex(n) == {d \in [2..n -> 1..n] : \A i \in 2..n : d[i] < i}

\* the values Math.floor(Math.random() * (i + 1)) can take at each index i
Draws(n) == {d \in [2..n -> 1..n] : \A i \in 2..n : d[i] <= i}

\* a variant of the swap that loses shuffled[i]
SwapOverwrite(s, i, j) == [s EXCEPT ![i] = s[j]]

\* [shuffled[i], shuffled[j]] = [shuffled[j], shuffled[i]]
Swap(s, i, j) == [s EXCEPT ![i] = s[j], ![j] = s[i]]

RECURSIVE Shuffle(_, _, _)
\* the Fisher-Yates loop from index i down to 2
Shuffle(s, i, d) ==
    IF i < 2 THEN s ELSE Shuffle(Swap(s, i, d[i]), i - 1, d)

\* Array.prototype.slice(0, count)
Slice0(s, count) ==
    LET end == IF count < 0 THEN Len(s) + count ELSE count
        stop == IF end < 0 THEN 0 ELSE IF end > Len(s) THEN Len(s) ELSE end
    IN SubSeq(s, 1, stop)

\* Arrays are objects: heap is the sequence of the arrays that exist, and an
\* array is referred to by its index in heap.

\* a variant that shuffles the caller's array
SpreadAlias(heap, ref) == [heap |-> heap, ref |-> ref]

\* [...cardIds]: a new array with the elements of the array at ref
Spread(heap, ref) == [heap |-> Append(heap, heap[ref]), ref |-> Len(heap) + 1]

\* a variant that also shuffles when count equals the length
ReturnsInputStrict(count, length) == count > length

\* if (count >= cardIds.length) return cardIds
ReturnsInput(count, length) == count >= length

\* getRandomCardIds(cardIds, count) for the array at cardIds and the draws
\* d: the heap after the call and the array returned
getRandomCardIds(heap, cardIds, count, d) ==
    IF ReturnsInput(count, Len(heap[cardIds])) THEN [heap |-> heap, ref |-> cardIds]
    ELSE LET shuffled == Spread(heap, cardIds)
             after == [shuffled.heap EXCEPT ![shuffled.ref] =
                           Shuffle(shuffled.heap[shuffled.ref],
                                   Len(shuffled.heap[shuffled.ref]), d)]
             sliced == Append(after, Slice0(after[shuffled.ref], count))
         IN [heap |-> sliced, ref |-> Len(sliced)]

\* the elements of the array a call of getRandomCardIds returned
ArrayOf(returned) == returned.heap[returned.ref]

\* a variant that never samples
SelectionsIgnoreCount(all, count) == {all}

\* what count ? getRandomCardIds(all, count) : all can evaluate to
Selections(all, count) ==
    IF Truthy(count)
    THEN {ArrayOf(getRandomCardIds(<<all>>, 1, count.num, d)) : d \in Draws(Len(all))}
    ELSE {all}

----------------------------------------------------------------------------
(* The batch hydrator: AnkiConnectClient.getCardsInfo *)

BATCH_SIZE == 5
IntraBatchDelayMs == 100
InterBatchDelayMs == 500
PlaceholderText == "[Basic card information only]"

\* cardsInfo.map((card) => card.note)
NoteIdsOf(cardsInfo) == [i \in DOMAIN cardsInfo |-> cardsInfo[i].note]

\* a variant whose lookup only knows the first note-level record
HasNoteFirstOnly(notesInfoArray, noteId) ==
    Len(notesInfoArray) > 0 /\ notesInfoArray[1].noteId = noteId

\* notesInfoMap.get(noteId): the last entry set for noteId, if any
HasNote(notesInfoArray, noteId) ==
    \E i \in DOMAIN notesInfoArray : notesInfoArray[i].noteId = noteId

LookupNote(notesInfoArray, noteId) ==
    LET hits == {i \in DOMAIN notesInfoArray : notesInfoArray[i].noteId = noteId}
    IN notesInfoArray[CHOOSE i \in hits : \A j \in hits : j <= i]

\* a variant that forgets the division
EaseUnscaled(factor) == [num |-> factor, den |-> 1]

\* cardInfo.factor / 1000, kept as a fraction
Ease(factor) == [num |-> factor, den |-> 1000]

\* the CardInfo pushed for a card-level record and its note
CardRecord(cardInfo, noteInfo) ==
    [id |-> cardInfo.cardId, noteId |-> cardInfo.note, deck |-> cardInfo.deckName,
     modelName |-> noteInfo.modelName, fields |-> noteInfo.fields,
     tags |-> noteInfo.tags, front |-> PlaceholderText, back |-> PlaceholderText,
     statistics |-> [ease |-> Ease(cardInfo.factor), interval |-> cardInfo.interval,
                     reviews |-> cardInfo.reps, lapses |-> cardInfo.lapses]]

\* i > 0 || batch.indexOf(cardInfo) > 0, for the record at 0-based index k
\* of the batch that starts at 0-based index i
WaitsBeforeRecord(i, k) == i > 0 \/ (k - i) > 0

\* i + BATCH_SIZE < cardsInfo.length
WaitsAfterBatch(i, n) == i + BATCH_SIZE < n

RECURSIVE ProcessCards(_, _, _, _)
\* the two nested loops, from the record at 0-based index k on;
\* acc = [result, timeline] so far; the timeline lists, in order, each wait
\* and each record taken up (by its 0-based index)
ProcessCards(cardsInfo, notesInfoArray, k, acc) ==
    IF k >= Len(cardsInfo) THEN acc
    ELSE LET i == BATCH_SIZE * (k \div BATCH_SIZE)
             cardInfo == cardsInfo[k + 1]
             w0 == IF WaitsBeforeRecord(i, k)
                   THEN Append(acc.timeline, EvDelay(IntraBatchDelayMs)) ELSE acc.timeline
             w1 == Append(w0, EvCard(k))
             r1 == IF HasNote(notesInfoArray, cardInfo.note)
                   THEN Append(acc.result,
                               CardRecord(cardInfo, LookupNote(notesInfoArray, cardInfo.note)))
                   ELSE acc.result
             lastOfBatch == (k + 1 = i + BATCH_SIZE) \/ (k + 1 = Len(cardsInfo))
             w2 == IF lastOfBatch /\ WaitsAfterBatch(i, Len(cardsInfo))
                   THEN Append(w1, EvDelay(InterBatchDelayMs)) ELSE w1
         IN ProcessCards(cardsInfo, notesInfoArray, k + 1, [result |-> r1, timeline |-> w2])

Hydrate(cardsInfo, notesInfoArray) ==
    ProcessCards(cardsInfo, notesInfoArray, 0, [result |-> <<>>, timeline |-> <<>>])

\* the card objects of the detailed payload: fields reduced to their values
PayloadCard(card) ==
    [card EXCEPT !.fields = [f \in DOMAIN card.fields |-> card.fields[f].value]]

----------------------------------------------------------------------------
(* Dates and the reviewed tag *)

\* the local dates the clock shows, in order
Calendar ==
    <<[year |-> 2025, month |-> 11, date |-> 31],
      [year |-> 2026, month |-> 0, date |-> 1]>>

DigitChars == <<"0", "1", "2", "3", "4", "5", "6", "7", "8", "9">>

RECURSIVE NumToString(_)
\* String(n) for a non-negative integer
NumToString(n) ==
    IF n < 10 THEN DigitChars[n + 1]
    ELSE NumToString(n \div 10) \o DigitChars[(n % 10) + 1]

\* s.padStart(2, '0')
PadStart2(s) == IF Len(s) < 2 THEN "0" \o s ELSE s

\* `${year}${month}${day}` of a date
DateDigits(now) ==
    NumToString(now.year) \o PadStart2(NumToString(now.month + 1)) \o PadStart2(NumToString(now.date))

\* how a template string renders a prefix value
Interpolate(v) ==
    CASE v.t = "string" -> v.str
      [] v.t = "null" -> "null"
      [] OTHER -> "undefined"

TagSeparator == "_"

\* a variant without padStart
generateReviewedTagNoPad(customPrefix, now) ==
    LET prefix == IF customPrefix.t = "undefined" THEN DefaultPrefix
                  ELSE Interpolate(customPrefix)
    IN prefix \o TagSeparator \o NumToString(now.year) \o NumToString(now.month + 1)
              \o NumToString(now.date)

\* generateReviewedTag(customPrefix = default)
generateReviewedTag(customPrefix, now) ==
    LET prefix == IF customPrefix.t = "undefined" THEN DefaultPrefix
                  ELSE Interpolate(customPrefix)
    IN prefix \o TagSeparator \o DateDigits(now)

\* `${customTagPrefix || default}_${tagDate}` in handleTagReviewedCards
ReportedTag(customTagPrefix, now) ==
    LET tagPrefix == IF Truthy(customTagPrefix) THEN Interpolate(customTagPrefix)
                     ELSE DefaultPrefix
    IN tagPrefix \o "_" \o DateDigits(now)

----------------------------------------------------------------------------
(* The call-tool handler, one step per await *)

Issue(action, params) == [action |-> action, params |-> params]

\* the handler returns (or throws) and the invocation is over
FinishWith(outcome, newLocals) ==
    /\ resp' = outcome
    /\ pc' = "done"
    /\ locals' = newLocals
    /\ UNCHANGED <<call, issued>>

Finish(outcome) == FinishWith(outcome, locals)

\* the handler awaits request(action, params)
Await(label, action, params, newLocals) ==
    /\ pc' = label
    /\ call' = StartRequest(action, params)
    /\ issued' = Append(issued, Issue(action, params))
    /\ locals' = newLocals
    /\ UNCHANGED resp

CallDone == call.state \in {"returned", "thrown"}

\* `Returning N random cards out of T total leech cards.` or `Returning all N leech cards.`
CardCountInfo(count, leechCardIds, allLeechCardIds) ==
    IF Truthy(count)
    THEN [text |-> "random", returning |-> Len(leechCardIds), total |-> Len(allLeechCardIds)]
    ELSE [text |-> "all", returning |-> Len(leechCardIds), total |-> Len(leechCardIds)]

IdsPayload(count, leechCardIds, allLeechCardIds) ==
    [message |-> CardCountInfo(count, leechCardIds, allLeechCardIds),
     count |-> Len(leechCardIds), totalLeechCards |-> Len(allLeechCardIds),
     cardIds |-> leechCardIds]

CardsPayload(count, leechCardIds, allLeechCardIds, cardsInfo) ==
    [message |-> CardCountInfo(count, leechCardIds, allLeechCardIds),
     count |-> Len(cardsInfo), totalLeechCards |-> Len(allLeechCardIds),
     cards |-> [i \in DOMAIN cardsInfo |-> PayloadCard(cardsInfo[i])]]

TaggedPayload(cardIds, tag) ==
    [message |-> [text |-> "tagged", cards |-> Len(cardIds), tag |-> tag],
     tagged_cards |-> cardIds, tag_added |-> tag, success |-> TRUE]

\* a call-tool request, one of requests, arrives: the handler runs up to
\* await isAvailable()
Receive(requests) ==
    /\ pc = "idle"
    /\ \E r \in requests : req' = r
    /\ pc' = "isAvailable"
    /\ call' = StartRequest("version", NoParams)
    /\ issued' = <<Issue("version", NoParams)>>
    /\ UNCHANGED <<hydration, sampler, mockMode, today, locals, resp>>

CallTool == Receive(ToolRequests)

CallGetLeechCards == Receive(LeechRequests)

CallTagReviewedCards == Receive(TagRequests)

\* handleTagReviewedCards up to its first await
TagReviewedCardsStart(l) ==
    LET cardIds == req.arguments.card_ids
    IN IF InvalidCardIds(cardIds)
       THEN FinishWith(TryCatch(Returned(TRUE, NoCardIdsText, NoPayload)), l)
       ELSE \* addTagsToCards: cardIds.length is not 0 here
            Await("addTagsToCards.cardsInfo", "cardsInfo", [cards |-> cardIds.arr], l)

\* handleGetLeechCards up to its first await
GetLeechCardsStart(l) ==
    Await("findLeechCards", "findCards", [query |-> "tag:leech"],
          [l EXCEPT !.detailed = DetailedOf(req.arguments),
                    !.count = CountOf(req.arguments)])

\* the availability check returned: short-circuit, or dispatch on the tool name
AfterIsAvailable ==
    /\ pc = "isAvailable"
    /\ CallDone
    /\ LET available == isAvailable(call)
           l == [locals EXCEPT !.isAvailable = available.value]
       IN IF available.state = "thrown"
          THEN \* outside the try block of the handler
               Finish(Thrown(available.error))
          ELSE IF ShortCircuits(available.value, mockMode)
          THEN FinishWith(Returned(TRUE, ConnectivityText, NoPayload), l)
          ELSE CASE req.name = "get_leech_cards" -> GetLeechCardsStart(l)
                 [] req.name = "tag_reviewed_cards" -> TagReviewedCardsStart(l)
                 [] OTHER ->
                       FinishWith(TryCatch(Thrown(McpError(<<"Unknown tool: ", req.name>>))), l)
    /\ UNCHANGED <<hydration, sampler, mockMode, today, req>>

\* a variant without the early return for an empty list
HydrateStartNoGuard(all, leech) ==
    Await("getCardsInfo.cardsInfo", "cardsInfo", [cards |-> leech],
          [locals EXCEPT !.allLeechCardIds = all, !.leechCardIds = leech])

\* getCardsInfo(leechCardIds) up to its first await, and the return of the
\* handler when it has none
HydrateStart(all, leech) ==
    IF Len(leech) = 0
    THEN Finish(TryCatch(Returned(FALSE, <<>>, CardsPayload(locals.count, leech, all, <<>>))))
    ELSE Await("getCardsInfo.cardsInfo", "cardsInfo", [cards |-> leech],
               [locals EXCEPT !.allLeechCardIds = all, !.leechCardIds = leech])

\* findLeechCards returned or threw
AfterFindLeechCards ==
    /\ pc = "findLeechCards"
    /\ CallDone
    /\ IF call.state = "thrown" THEN Finish(TryCatch(Thrown(call.error)))
       ELSE IF call.result.t # "array"
       THEN Finish(TryCatch(Thrown(TypeError("allLeechCardIds.length"))))
       ELSE IF NoneFound(call.result.arr)
       THEN Finish(TryCatch(Returned(FALSE, NoneFoundText, NoPayload)))
       ELSE \E leech \in Selections(call.result.arr, locals.count) :
               IF ~locals.detailed
               THEN Finish(TryCatch(Returned(FALSE, <<>>,
                        IdsPayload(locals.count, leech, call.result.arr))))
               ELSE HydrateStart(call.result.arr, leech)
    /\ UNCHANGED <<hydration, sampler, mockMode, today, req>>

\* a variant whose catch returns what it has, nothing, in place of the error
getCardsInfoCatchReturnsEmpty(error) ==
    Returned(FALSE, <<>>,
             CardsPayload(locals.count, locals.leechCardIds, locals.allLeechCardIds, <<>>))

\* catch (error) { console.error("Error in getCardsInfo:", error); throw error; }
getCardsInfoCatch(error) == Thrown(error)

\* the bulk cardsInfo call of getCardsInfo returned or threw
AfterHydrateCardsInfo ==
    /\ pc = "getCardsInfo.cardsInfo"
    /\ CallDone
    /\ IF call.state = "thrown" THEN Finish(TryCatch(getCardsInfoCatch(call.error)))
       ELSE IF call.result.t # "array"
       THEN Finish(TryCatch(Thrown(TypeError("cardsInfo.map"))))
       ELSE Await("getCardsInfo.notesInfo", "notesInfo",
                  [notes |-> Unique(NoteIdsOf(call.result.arr))],
                  [locals EXCEPT !.cardsInfo = call.result.arr])
    /\ UNCHANGED <<hydration, sampler, mockMode, today, req>>

\* the bulk notesInfo call returned or threw: the records are processed
AfterHydrateNotesInfo ==
    /\ pc = "getCardsInfo.notesInfo"
    /\ CallDone
    /\ IF call.state = "thrown" THEN Finish(TryCatch(getCardsInfoCatch(call.error)))
       ELSE IF call.result.t # "array"
       THEN Finish(TryCatch(Thrown(TypeError("notesInfoArray.forEach"))))
       ELSE LET h == Hydrate(locals.cardsInfo, call.result.arr)
            IN /\ resp' = TryCatch(Returned(FALSE, <<>>,
                             CardsPayload(locals.count, locals.leechCardIds,
                                          locals.allLeechCardIds, h.result)))
               /\ pc' = "done"
               /\ locals' = [locals EXCEPT !.timeline = h.timeline]
               /\ UNCHANGED <<call, issued>>
    /\ UNCHANGED <<hydration, sampler, mockMode, today, req>>

\* the cardsInfo call of addTagsToCards returned or threw
AfterTagCardsInfo ==
    /\ pc = "addTagsToCards.cardsInfo"
    /\ CallDone
    /\ IF call.state = "thrown" THEN Finish(TryCatch(Thrown(call.error)))
       ELSE IF call.result.t # "array"
       THEN Finish(TryCatch(Thrown(TypeError("cardsInfo.map"))))
       ELSE LET noteIds == Unique(NoteIdsOf(call.result.arr))
                reviewedTag == generateReviewedTag(req.arguments.custom_tag_prefix,
                                                   Calendar[today])
            IN IF Len(noteIds) = 0
               THEN \* addTagsToCards returns false
                    Finish(TryCatch(Returned(TRUE, TagFailedText, NoPayload)))
               ELSE Await("addTagsToCards.addTags", "addTags",
                          [notes |-> noteIds, tags |-> reviewedTag],
                          [locals EXCEPT !.reviewedTag = reviewedTag])
    /\ UNCHANGED <<hydration, sampler, mockMode, today, req>>

\* the addTags call returned or threw
AfterAddTags ==
    /\ pc = "addTagsToCards.addTags"
    /\ CallDone
    /\ IF call.state = "thrown" THEN Finish(TryCatch(Thrown(call.error)))
       ELSE IF Truthy(call.result)
       THEN Finish(TryCatch(Returned(FALSE, <<>>,
                TaggedPayload(req.arguments.card_ids.arr,
                              ReportedTag(req.arguments.custom_tag_prefix, Calendar[today])))))
       ELSE Finish(TryCatch(Returned(TRUE, TagFailedText, NoPayload)))
    /\ UNCHANGED <<hydration, sampler, mockMode, today, req>>

\* a variant in which the identifier lists of the invocation are kept
RespondKeepsLocals ==
    /\ pc = "done"
    /\ pc' = "idle"
    /\ req' = NoReq
    /\ call' = NoCall
    /\ issued' = <<>>
    /\ resp' = NoResp
    /\ UNCHANGED <<hydration, sampler, mockMode, today, locals>>

\* the response is sent; nothing of the invocation is kept
Respond ==
    /\ pc = "done"
    /\ pc' = "idle"
    /\ req' = NoReq
    /\ call' = NoCall
    /\ issued' = <<>>
    /\ locals' = NoLocals
    /\ resp' = NoResp
    /\ UNCHANGED <<hydration, sampler, mockMode, today>>

\* the local date changes
Midnight ==
    /\ today < Len(Calendar)
    /\ today' = today + 1
    /\ UNCHANGED <<hydration, sampler, mockMode, pc, req, call, issued, locals, resp>>

----------------------------------------------------------------------------
(* Direct use of the client: request(action, params) called on its own *)

ClientActions == {"version", "findCards", "cardsInfo", "notesInfo", "addTags", "deleteNotes"}

ClientParams(action) ==
    CASE action = "findCards" -> {[query |-> "tag:leech"]}
      [] action = "cardsInfo" -> {NoParams, [cards |-> <<1>>], [cards |-> <<2, 1>>]}
      [] action = "notesInfo" -> {NoParams, [notes |-> <<101>>]}
      [] action = "addTags" -> {[notes |-> <<101>>, tags |-> "X_20251231"]}
      [] OTHER -> {NoParams}

ClientRequest ==
    /\ pc = "idle"
    /\ \E action \in ClientActions : \E params \in ClientParams(action) :
          /\ call' = StartRequest(action, params)
          /\ issued' = <<Issue(action, params)>>
    /\ pc' = "client"
    /\ UNCHANGED <<hydration, sampler, mockMode, today, req, locals, resp>>

\* the caller has the result (or the error); the call is over
ClientReturn ==
    /\ pc = "client"
    /\ CallDone
    /\ pc' = "idle"
    /\ call' = NoCall
    /\ issued' = <<>>
    /\ UNCHANGED <<hydration, sampler, mockMode, today, req, locals, resp>>

----------------------------------------------------------------------------
(* The random-selection test script: testRandomSelection of direct-test.js *)

\* nothing of the script has run
NoSampler == [phase |-> "none", heap |-> <<>>, mockCardIds |-> 0, original |-> <<>>,
              count |-> 0, selected |-> 0]

\* the identifier lists the script can be run on
MockCardIdLists == UNION {DistinctSeqs(1..MaxIds, n) : n \in 0..MaxIds}

\* const mockCardIds = Array.from(...): the array is created; original keeps
\* the elements it was created with
CreateMockCardIds ==
    /\ pc = "idle"
    /\ sampler.phase = "none"
    /\ \E ids \in MockCardIdLists :
          sampler' = [NoSampler EXCEPT !.phase = "created", !.heap = <<ids>>,
                                       !.mockCardIds = 1, !.original = ids]
    /\ UNCHANGED <<hydration, mockMode, today, pc, req, call, issued, locals, resp>>

\* getRandomCardIds(mockCardIds, count) is called and returns: the arrays of
\* earlier selections are dropped
TestRandomSelection ==
    /\ sampler.phase \in {"created", "selected"}
    /\ \E count \in (-1)..(MaxIds + 1) :
          \E d \in Draws(Len(sampler.heap[sampler.mockCardIds])) :
             LET returned == getRandomCardIds(<<sampler.heap[sampler.mockCardIds]>>,
                                              sampler.mockCardIds, count, d)
             IN sampler' = [sampler EXCEPT !.phase = "selected",
                                           !.heap = returned.heap,
                                           !.count = count,
                                           !.selected = returned.ref]
    /\ UNCHANGED <<hydration, mockMode, today, pc, req, call, issued, locals, resp>>

----------------------------------------------------------------------------
(* The record loop of getCardsInfo, run on bulk results of any size *)

NoHydration == [phase |-> "none", cardsInfo |-> <<>>, notesInfoArray |-> <<>>,
                result |-> <<>>, timeline |-> <<>>]

\* n card-level records, cards 1..n, their notes taken in turn from Notes
\* starting after the first shift notes
CardsInfoOf(n, shift) ==
    [j \in 1..n |-> RawCardInfo(j, 101 + ((j + shift) % MaxNotes))]

\* the note-level results: the records of any of the notes, in order
NotesInfoArrays ==
    {Project(p) : p \in SubSeqs([i \in 1..MaxNotes |-> RawNoteInfo(100 + i)])}

\* both bulk calls of getCardsInfo have returned
HydrationFetched ==
    /\ pc = "idle"
    /\ hydration.phase = "none"
    /\ \E n \in 0..MaxRecords : \E shift \in 0..(MaxNotes - 1) :
          \E notesInfoArray \in NotesInfoArrays :
             hydration' = [NoHydration EXCEPT !.phase = "fetched",
                                             !.cardsInfo = CardsInfoOf(n, shift),
                                             !.notesInfoArray = notesInfoArray]
    /\ UNCHANGED <<sampler, mockMode, today, pc, req, call, issued, locals, resp>>

\* the loops over the records have run and getCardsInfo returns result
HydrationReturns ==
    /\ hydration.phase = "fetched"
    /\ LET h == Hydrate(hydration.cardsInfo, hydration.notesInfoArray)
       IN hydration' = [hydration EXCEPT !.phase = "returned", !.result = h.result,
                                         !.timeline = h.timeline]
    /\ UNCHANGED <<sampler, mockMode, today, pc, req, call, issued, locals, resp>>

----------------------------------------------------------------------------
(* Specifications *)

Init ==
    /\ mockMode \in BOOLEAN
    /\ today = 1
    /\ pc = "idle"
    /\ req = NoReq
    /\ call = NoCall
    /\ issued = <<>>
    /\ locals = NoLocals
    /\ resp = NoResp
    /\ sampler = NoSampler
    /\ hydration = NoHydration

Next ==
    \/ CallTool
    \/ PostResolves
    \/ PostRejects
    \/ AfterIsAvailable
    \/ AfterFindLeechCards
    \/ AfterHydrateCardsInfo
    \/ AfterHydrateNotesInfo
    \/ AfterTagCardsInfo
    \/ AfterAddTags
    \/ Respond
    \/ Midnight

Spec == Init /\ [][Next]_vars

\* the server together with direct calls of the client
NextClient == Next \/ ClientRequest \/ ClientReturn

SpecClient == Init /\ [][NextClient]_vars

\* the server when its client only asks for leech cards (the date is not read)
NextLeech ==
    \/ CallGetLeechCards
    \/ PostResolves
    \/ PostRejects
    \/ AfterIsAvailable
    \/ AfterFindLeechCards
    \/ AfterHydrateCardsInfo
    \/ AfterHydrateNotesInfo
    \/ Respond

SpecLeech == Init /\ [][NextLeech]_vars

\* the server when its client only tags reviewed cards
NextTag ==
    \/ CallTagReviewedCards
    \/ PostResolves
    \/ PostRejects
    \/ AfterIsAvailable
    \/ AfterTagCardsInfo
    \/ AfterAddTags
    \/ Respond
    \/ Midnight

SpecTag == Init /\ [][NextTag]_vars

\* the test script of the sampler, run on its own
NextSampler == CreateMockCardIds \/ TestRandomSelection

SpecSampler == Init /\ [][NextSampler]_vars

\* the record loop of the hydrator, run on its own
NextHydrator == HydrationFetched \/ HydrationReturns

SpecHydrator == Init /\ [][NextHydrator]_vars

\* the requests of the termination analysis: each tool with and without
\* usable arguments, and a tool the server does not have
LiveRequests ==
    {[name |-> "get_leech_cards", arguments |-> Arguments(d, c, JUndef, JUndef)] :
        d \in {JUndef, JBool(FALSE)}, c \in {JUndef, JNum(1), JNum(-1)}}
    \cup {[name |-> "tag_reviewed_cards", arguments |-> Arguments(JUndef, JUndef, ids, JUndef)] :
        ids \in {JUndef, JArr(<<>>), JArr([i \in 1..MaxCards |-> i])}}
    \cup {[name |-> "delete_cards", arguments |-> Arguments(JUndef, JUndef, JUndef, JUndef)]}

CallToolLive == Receive(LiveRequests)

\* every network attempt eventually completes, and the continuation of a
\* handler runs once the call it awaits has settled
Fairness ==
    /\ WF_vars(PostResolves \/ PostRejects)
    /\ WF_vars(AfterIsAvailable)
    /\ WF_vars(AfterFindLeechCards)
    /\ WF_vars(AfterHydrateCardsInfo)
    /\ WF_vars(AfterHydrateNotesInfo)
    /\ WF_vars(AfterTagCardsInfo)
    /\ WF_vars(AfterAddTags)

NextLive ==
    \/ CallToolLive
    \/ PostResolves
    \/ PostRejects
    \/ AfterIsAvailable
    \/ AfterFindLeechCards
    \/ AfterHydrateCardsInfo
    \/ AfterHydrateNotesInfo
    \/ AfterTagCardsInfo
    \/ AfterAddTags
    \/ Respond

\* the server under fair scheduling
SpecLive == Init /\ [][NextLive]_vars /\ Fairness

----------------------------------------------------------------------------
(* Properties *)

IssuedActions == {issued[i].action : i \in DOMAIN issued}

VersionOnly == <<Issue("version", NoParams)>>

\* the number of network attempts of the transport call
Attempts(c) == Cardinality({i \in DOMAIN c.log : c.log[i].e = "post"})

\* the number of attempts of the call that were rejected with code
Rejections(c, code) ==
    Cardinality({i \in DOMAIN c.log : c.log[i] = EvReject(code)})

IsRejectAt(c, i) == c.log[i].e = "reject"

\* card_ids is a non-empty array
UsableCardIds(v) == IF v.t = "array" THEN Len(v.arr) > 0 ELSE FALSE

\* C1: with mock mode off, when the version probe of an invocation has
\* failed, the handler's next step returns the connectivity error envelope
\* (error flag set) and the invocation has issued nothing but the probe:
\* no findCards, cardsInfo, notesInfo or addTags call.
C1_ProbeFailureShortCircuits ==
    [][(pc = "isAvailable" /\ ~mockMode /\ call.state = "thrown" /\ pc' # pc)
        => (/\ pc' = "done"
            /\ resp'.state = "returned"
            /\ resp'.isError
            /\ resp'.text = ConnectivityText
            /\ issued' = VersionOnly)]_vars

C1_Witness ==
    /\ pc = "done"
    /\ ~mockMode
    /\ call.action = "version"
    /\ call.state = "thrown"
    /\ resp.isError
    /\ resp.text = ConnectivityText
    /\ IssuedActions = {"version"}

BackoffSchedule == <<500, 1000, 2000>>

\* C4: every attempt after the first follows a ConnectionReset and a wait of
\* 500 ms (1st retry), 1000 ms (2nd) or 2000 ms (3rd); a call whose attempt
\* got a response with a null error field returns, and a call that returns
\* hands back the result of the attempt that succeeded.
C4_BackoffScheduleAndSuccess ==
    /\ \A i \in DOMAIN call.log :
          (call.log[i] = EvPost /\ i > 1) =>
              LET k == Cardinality({j \in 1..(i - 1) : call.log[j] = EvPost})
              IN /\ k <= Len(BackoffSchedule)
                 /\ call.log[i - 1] = EvDelay(BackoffSchedule[k])
                 /\ call.log[i - 2] = EvReject("ECONNRESET")
    /\ (call.state = "inflight" /\ Rejections(call, "ECONNRESET") > 0)
          => call.log[Len(call.log)] = EvPost
    /\ call.response.error = JNull => call.state = "returned"
    /\ (call.state = "returned" /\ Attempts(call) > 0)
          => call.result = call.response.result

C4_Witness ==
    /\ call.state = "returned"
    /\ call.action = "findCards"
    /\ call.result = JArr(<<2, 1>>)
    /\ call.log = <<EvPost, EvReject("ECONNRESET"), EvDelay(500),
                    EvPost, EvReject("ECONNRESET"), EvDelay(1000),
                    EvPost, EvResponse, EvDelay(50)>>

\* C5: a transport call makes at most 4 network attempts (3 retries); a call
\* fails with the ConnectionReset error exactly when its 4th attempt was
\* reset, and then nothing follows the last reset.
C5_AtMostThreeRetries ==
    /\ Attempts(call) <= 4
    /\ Rejections(call, "ECONNRESET") = 4
          => /\ call.state = "thrown"
             /\ call.error = Error(NetworkMessage("ECONNRESET"))
             /\ call.log[Len(call.log)] = EvReject("ECONNRESET")
    /\ (call.state = "thrown" /\ call.error = Error(NetworkMessage("ECONNRESET")))
          => Rejections(call, "ECONNRESET") = 4

C5_Witness ==
    /\ call.state = "thrown"
    /\ call.action = "cardsInfo"
    /\ Attempts(call) = 4
    /\ Rejections(call, "ECONNRESET") = 4
    /\ call.error = Error(NetworkMessage("ECONNRESET"))

\* C6: a ConnectionRefused on any attempt ends the call at once: it is the
\* last event of the call (no wait, no further attempt) and the call has
\* failed with the could-not-connect error.
C6_RefusedFailsImmediately ==
    \A i \in DOMAIN call.log :
        call.log[i] = EvReject("ECONNREFUSED") =>
            /\ i = Len(call.log)
            /\ call.state = "thrown"
            /\ call.error = Error(RefusedMessage)

C6_Witness ==
    /\ call.state = "thrown"
    /\ call.error = Error(RefusedMessage)
    /\ call.log = <<EvPost, EvReject("ECONNRESET"), EvDelay(500),
                    EvPost, EvReject("ECONNREFUSED")>>

\* C7 as stated: whenever a response with a non-null error field (the empty
\* string included) has been received, the call has failed with RemoteError,
\* that response is the last event, and its result is never returned.
C7_NonNullErrorFails ==
    (call.response.error.t = "string") =>
        /\ call.state = "thrown"
        /\ call.error = Error(RemoteMessage(call.response.error.str))
        /\ call.log[Len(call.log)] = EvResponse

\* C8: a rejection that is neither a reset nor a refusal ends the call at
\* once, on whichever attempt it happens: it is the last event of the call
\* and the call has failed with the network error of that code.
C8_OtherNetworkNotRetried ==
    \A i \in DOMAIN call.log :
        (IsRejectAt(call, i) /\ call.log[i].code \notin {"ECONNRESET", "ECONNREFUSED"})
        => /\ i = Len(call.log)
           /\ call.state = "thrown"
           /\ call.error = Error(NetworkMessage(call.log[i].code))

C8_Witness ==
    /\ call.state = "thrown"
    /\ call.error = Error(NetworkMessage("ECONNABORTED"))
    /\ call.log = <<EvPost, EvReject("ECONNABORTED")>>

\* the call ended with a response followed by the 50 ms wait
EndsWithPacing(c) ==
    /\ Len(c.log) >= 2
    /\ c.log[Len(c.log) - 1] = EvResponse
    /\ c.log[Len(c.log)] = EvDelay(50)

\* C9 as stated: every transport call that returns successfully has waited
\* 50 ms between obtaining its result and returning, in every mode.
C9_PacingInEveryMode == call.state = "returned" => EndsWithPacing(call)

\* C9 amended: with mock mode off, every transport call that returns
\* successfully has waited 50 ms (once) between obtaining its result and
\* returning it; in mock mode a call returns without any wait.
C9_PacingWhenNotMock ==
    call.state = "returned" =>
        IF mockMode THEN call.log = <<>>
        ELSE /\ EndsWithPacing(call)
             /\ Cardinality({i \in DOMAIN call.log : call.log[i] = EvDelay(50)}) = 1

C9_Witness ==
    /\ ~mockMode
    /\ call.state = "returned"
    /\ call.action = "addTags"
    /\ call.log = <<EvPost, EvResponse, EvDelay(50)>>

\* C10: in mock mode no transport call ever makes a network attempt or
\* fails; each returns the canned result of its action (the version string,
\* the three card ids, one record per requested card or note, true for
\* addTags), and null for an unrecognised action.
C10_MockModeNeverTouchesNetwork ==
    mockMode =>
        /\ call.state \in {"none", "returned"}
        /\ call.log = <<>>
        /\ call.state = "returned" =>
              CASE call.action = "version" -> call.result = JStr("6")
                [] call.action = "findCards" ->
                      call.result = JArr(<<1234567890, 1234567891, 1234567892>>)
                [] call.action = "cardsInfo" ->
                      /\ call.result.t = "array"
                      /\ Len(call.result.arr) = Len(ParamOr(call.params, "cards"))
                      /\ \A i \in DOMAIN call.result.arr :
                            /\ call.result.arr[i].cardId = call.params.cards[i]
                            /\ call.result.arr[i].note = call.params.cards[i] + 1000000
                            /\ call.result.arr[i].factor = 2500
                [] call.action = "notesInfo" ->
                      /\ call.result.t = "array"
                      /\ Len(call.result.arr) = Len(ParamOr(call.params, "notes"))
                      /\ \A i \in DOMAIN call.result.arr :
                            call.result.arr[i].noteId = call.params.notes[i]
                [] call.action = "addTags" -> call.result = JBool(TRUE)
                [] OTHER -> call.result = JNull

C10_Witness ==
    /\ mockMode
    /\ pc = "client"
    /\ call.action = "deleteNotes"
    /\ call.state = "returned"
    /\ call.result = JNull

\* C11: isAvailable never raises: once the version call of an invocation
\* (with its retries) is over, the handler goes on with isAvailable = TRUE
\* when the call returned and isAvailable = FALSE when it failed, whatever
\* the failure, and no error escapes from the check.
C11_IsAvailableNeverRaises ==
    (pc = "done" /\ call.action = "version") =>
        /\ resp.state = "returned"
        /\ locals.isAvailable = (call.state = "returned")

C11_Witness ==
    /\ pc = "done"
    /\ call.action = "version"
    /\ call.state = "thrown"
    /\ Rejections(call, "ECONNRESET") = 4
    /\ locals.isAvailable = FALSE
    /\ resp.state = "returned"

\* the selection sel made from the leech ids all for the count argument
SelectionFollowsCount(all, sel, count) ==
    IF count = JUndef THEN sel = all
    ELSE IF count.t # "number" THEN TRUE
    ELSE IF count.num >= Len(all) THEN sel = all
    ELSE IF count.num > 0
    THEN /\ Len(sel) = count.num
         /\ \A i, j \in DOMAIN sel : i # j => sel[i] # sel[j]
         /\ \A i \in DOMAIN sel : Contains(all, sel[i])
    ELSE TRUE

\* C12: with a positive count below the number of leech cards,
\* get_leech_cards selects exactly count ids, distinct members of the ids
\* the card search returned; with count absent or at least that number it
\* selects every id in the order of the search result. The selection is
\* the cardIds of the ids-only payload, and the list handed to the hydrator.
C12_CountSelectsLeechCards ==
    /\ (pc = "done" /\ call.action = "findCards" /\ call.state = "returned"
            /\ ~resp.isError /\ ~locals.detailed /\ resp.payload # NoPayload) =>
          SelectionFollowsCount(call.result.arr, resp.payload.cardIds, req.arguments.count)
    /\ (pc = "getCardsInfo.cardsInfo") =>
          /\ call.params.cards = locals.leechCardIds
          /\ SelectionFollowsCount(locals.allLeechCardIds, locals.leechCardIds,
                                   req.arguments.count)

C12_Witness ==
    /\ pc = "done"
    /\ ~mockMode
    /\ req.arguments.count = JNum(1)
    /\ req.arguments.detailed = JBool(FALSE)
    /\ call.action = "findCards"
    /\ call.result = JArr(<<1, 2>>)
    /\ resp.payload # NoPayload
    /\ resp.payload.cardIds = <<2>>

\* the actions of the transport calls of the invocation, in order
IssuedActionSeq == [i \in DOMAIN issued |-> issued[i].action]

\* get_leech_cards has returned a payload
LeechPayloadReturned ==
    /\ pc = "done"
    /\ req.name = "get_leech_cards"
    /\ resp.state = "returned"
    /\ resp.payload # NoPayload

\* the keys of a full card record
FullRecordKeys ==
    {"id", "noteId", "deck", "modelName", "fields", "tags", "front", "back", "statistics"}

\* C13: a get_leech_cards invocation with detailed = false never issues a
\* cardsInfo or notesInfo call and its payload carries identifiers and
\* counts only; with detailed omitted or true the payload carries card
\* records, which come from one cardsInfo and one notesInfo call of the
\* hydrator on the selected ids (no call when the selection is empty).
C13_DetailedDecidesHydration ==
    IF req.name = "get_leech_cards" /\ req.arguments.detailed = JBool(FALSE)
    THEN /\ IssuedActions \subseteq {"version", "findCards"}
         /\ LeechPayloadReturned =>
               DOMAIN resp.payload = {"message", "count", "totalLeechCards", "cardIds"}
    ELSE LeechPayloadReturned =>
            /\ DOMAIN resp.payload = {"message", "count", "totalLeechCards", "cards"}
            /\ \A i \in DOMAIN resp.payload.cards :
                  DOMAIN resp.payload.cards[i] = FullRecordKeys
            /\ IssuedActionSeq =
                  IF resp.payload.message.returning = 0
                  THEN <<"version", "findCards">>
                  ELSE <<"version", "findCards", "cardsInfo", "notesInfo">>
            /\ resp.payload.message.returning > 0 =>
                  issued[3].params.cards = locals.leechCardIds

C13_Witness ==
    /\ LeechPayloadReturned
    /\ ~mockMode
    /\ req.arguments.detailed = JUndef
    /\ IssuedActionSeq = <<"version", "findCards", "cardsInfo", "notesInfo">>
    /\ Len(resp.payload.cards) = 2
    /\ resp.payload.cards[1].id = 2

\* C14: when the card search of a get_leech_cards invocation returns an
\* empty list, the invocation ends with a success envelope (isError not
\* set) whose text is the none-found message, and it has issued only the
\* version and findCards calls.
C14_NoLeechCardsIsSuccess ==
    (pc = "done" /\ call.action = "findCards" /\ call.state = "returned"
        /\ call.result = JArr(<<>>)) =>
        /\ resp = Returned(FALSE, NoneFoundText, NoPayload)
        /\ IssuedActionSeq = <<"version", "findCards">>

C14_Witness ==
    /\ pc = "done"
    /\ ~mockMode
    /\ call.action = "findCards"
    /\ call.result = JArr(<<>>)
    /\ locals.detailed
    /\ resp.text = NoneFoundText
    /\ ~resp.isError

\* the dates of Calendar written as YYYYMMDD
ExpectedDates == <<"20251231", "20260101">>

\* the prefix the tag of the invocation is to carry
ExpectedPrefix ==
    IF req.arguments.custom_tag_prefix = JUndef THEN DefaultPrefix
    ELSE req.arguments.custom_tag_prefix.str

\* s lists the notes of the card-level records, each once
IsDuplicateFreeNotesOf(s, cardsInfo) ==
    /\ \A i, j \in DOMAIN s : i # j => s[i] # s[j]
    /\ {s[i] : i \in DOMAIN s} = {cardsInfo[i].note : i \in DOMAIN cardsInfo}

\* the calls of a tag_reviewed_cards invocation, in any state
TagCallsInOrder ==
    req.name = "tag_reviewed_cards" =>
        /\ \E n \in 0..3 : IssuedActionSeq = SubSeq(<<"version", "cardsInfo", "addTags">>, 1, n)
        /\ Len(issued) >= 2 =>
              /\ req.arguments.card_ids.t = "array"
              /\ Len(req.arguments.card_ids.arr) > 0
              /\ issued[2].params = [cards |-> req.arguments.card_ids.arr]
        /\ (pc = "done" /\ resp.payload # NoPayload) => Len(issued) = 3

\* the step that follows the cardsInfo call of a tag_reviewed_cards invocation
TagStepIssuesAddTags ==
    (pc = "addTagsToCards.cardsInfo" /\ pc' # pc /\ call.state = "returned"
        /\ call.result.t = "array" /\ Len(call.result.arr) > 0) =>
        /\ pc' = "addTagsToCards.addTags"
        /\ Len(issued') = 3
        /\ issued'[3].action = "addTags"
        /\ DOMAIN issued'[3].params = {"notes", "tags"}
        /\ IsDuplicateFreeNotesOf(issued'[3].params.notes, call.result.arr)
        /\ issued'[3].params.tags = ExpectedPrefix \o "_" \o ExpectedDates[today]

\* C15: a tag_reviewed_cards invocation with a non-empty card_ids issues,
\* after the version probe, one cardsInfo call for the given cards and then
\* (once that call has returned records) one addTags call, and no other:
\* the notes of the addTags call are the notes of the returned records,
\* each once, and its tag is the prefix, an underscore and the local date
\* of that moment as YYYYMMDD with month and day zero-padded.
C15_OneCardsInfoThenOneAddTags ==
    /\ []TagCallsInOrder
    /\ [][TagStepIssuesAddTags]_vars

C15_Witness ==
    /\ pc = "addTagsToCards.addTags"
    /\ today = 2
    /\ req.arguments.card_ids = JArr(<<1, 2>>)
    /\ req.arguments.custom_tag_prefix = JStr("X")
    /\ issued[3].params = [notes |-> <<101>>, tags |-> "X_20260101"]

\* C16 as stated: the tag of the addTags call of a tag_reviewed_cards
\* invocation is the prefix (the default one, or the custom prefix) and the
\* date as YYYYMMDD joined by a double colon.
C16_TagJoinedByDoubleColon ==
    [][(pc = "addTagsToCards.cardsInfo" /\ pc' = "addTagsToCards.addTags") =>
          issued'[3].params.tags = ExpectedPrefix \o "::" \o ExpectedDates[today]]_vars

\* C17: the hydrator called with an empty identifier list returns an empty
\* result without a remote call: a detailed get_leech_cards invocation
\* whose selection is empty answers with no card record and has issued
\* only version and findCards, and no cardsInfo call of the hydrator is
\* ever issued for an empty list.
C17_EmptyHydrateMakesNoCall ==
    req.name = "get_leech_cards" =>
        /\ \A i \in DOMAIN issued :
              issued[i].action = "cardsInfo" => Len(issued[i].params.cards) > 0
        /\ (LeechPayloadReturned /\ locals.detailed /\ call.action = "findCards") =>
              /\ resp.payload.message.returning = 0
              /\ resp.payload.cards = <<>>
              /\ resp.payload.count = 0
              /\ IssuedActionSeq = <<"version", "findCards">>

C17_Witness ==
    /\ LeechPayloadReturned
    /\ ~mockMode
    /\ req.arguments.count = JNum(-1)
    /\ locals.detailed
    /\ call.action = "findCards"
    /\ call.result = JArr(<<2>>)
    /\ resp.payload.cards = <<>>
    /\ Len(issued) = 2

\* the elements of the array the last call of the script returned
Selected == sampler.heap[sampler.selected]

\* C18: for every list of identifiers and every count that is at least its
\* length, the sampler returns exactly the list, in its original order,
\* with no element added, dropped or moved.
C18_CountAtLeastLengthReturnsInput ==
    (sampler.phase = "selected" /\ sampler.count >= Len(sampler.original)) =>
        Selected = sampler.original

C18_Witness ==
    /\ sampler.phase = "selected"
    /\ sampler.original = <<3, 1, 2>>
    /\ sampler.count = 3
    /\ Selected = <<3, 1, 2>>

\* C19: for every list of identifiers, every count above 0 and below its
\* length and every outcome of the draws, the sampler returns a sequence
\* of exactly count elements, none repeated, each an element of the list.
C19_SampleIsDistinctSubset ==
    (sampler.phase = "selected" /\ 0 < sampler.count
        /\ sampler.count < Len(sampler.original)) =>
        /\ Len(Selected) = sampler.count
        /\ \A i, j \in DOMAIN Selected : i # j => Selected[i] # Selected[j]
        /\ \A i \in DOMAIN Selected : Contains(sampler.original, Selected[i])

C19_Witness ==
    /\ sampler.phase = "selected"
    /\ sampler.original = <<3, 1, 2>>
    /\ sampler.count = 2
    /\ Selected = <<2, 3>>

\* C20: the sampler never changes its input: after any call, for any
\* count and any draws, the caller's array has the elements it was created
\* with, in the same order.
C20_InputNotMutated ==
    sampler.phase = "selected" =>
        sampler.heap[sampler.mockCardIds] = sampler.original

C20_Witness ==
    /\ sampler.phase = "selected"
    /\ sampler.original = <<3, 1, 2>>
    /\ sampler.count = 1
    /\ sampler.selected # sampler.mockCardIds
    /\ Selected = <<2>>
    /\ sampler.heap[sampler.mockCardIds] = <<3, 1, 2>>

\* C21 as stated: the shuffle draws from a random source the caller
\* injects, so two runs of the sampler on the same identifiers with the
\* same count and the same source return identical output. The sampler has
\* one source, Math.random, and no way to inject another: the statement is
\* about two consecutive calls of the script with the same positive count.
C21_SameSourceSameOutput ==
    [][(sampler.phase = "selected" /\ sampler'.phase = "selected"
          /\ sampler.count > 0 /\ sampler'.count = sampler.count) =>
          sampler'.heap[sampler'.selected] = Selected]_vars

\* the three identifiers of the mock card search
MockLeechCardIds == <<1234567890, 1234567891, 1234567892>>

\* the fraction ease equals n / d
IsQuotient(ease, n, d) == ease.den # 0 /\ ease.num * d = n * ease.den

\* C22: in mock mode get_leech_cards({detailed: false}) returns a success
\* payload with count = 3, totalLeechCards = 3 and cardIds = [1234567890,
\* 1234567891, 1234567892], in that order.
C22_MockIdsOnlyPayload ==
    (mockMode /\ pc = "done" /\ req.name = "get_leech_cards"
        /\ req.arguments.detailed = JBool(FALSE) /\ req.arguments.count = JUndef) =>
        /\ resp.state = "returned"
        /\ ~resp.isError
        /\ DOMAIN resp.payload = {"message", "count", "totalLeechCards", "cardIds"}
        /\ resp.payload.count = 3
        /\ resp.payload.totalLeechCards = 3
        /\ resp.payload.cardIds = MockLeechCardIds

C22_Witness ==
    /\ mockMode
    /\ pc = "done"
    /\ req.name = "get_leech_cards"
    /\ req.arguments.detailed = JBool(FALSE)
    /\ req.arguments.count = JUndef
    /\ resp.payload.cardIds = MockLeechCardIds
    /\ IssuedActionSeq = <<"version", "findCards">>

\* C23: in mock mode get_leech_cards({detailed: true}) returns a cards array
\* of length 3, one card per mock identifier in order (none skipped for a
\* missing note), and the statistics.ease of every card is 2500 / 1000.
C23_MockDetailedPayload ==
    (mockMode /\ pc = "done" /\ req.name = "get_leech_cards"
        /\ req.arguments.detailed = JBool(TRUE) /\ req.arguments.count = JUndef) =>
        /\ resp.state = "returned"
        /\ ~resp.isError
        /\ "cards" \in DOMAIN resp.payload
        /\ Len(resp.payload.cards) = 3
        /\ \A i \in 1..3 :
              /\ resp.payload.cards[i].id = MockLeechCardIds[i]
              /\ IsQuotient(resp.payload.cards[i].statistics.ease, 2500, 1000)

C23_Witness ==
    /\ mockMode
    /\ pc = "done"
    /\ req.name = "get_leech_cards"
    /\ req.arguments.detailed = JBool(TRUE)
    /\ req.arguments.count = JUndef
    /\ Len(resp.payload.cards) = 3
    /\ resp.payload.cards[3].noteId = 1234567892 + 1000000
    /\ IssuedActionSeq = <<"version", "findCards", "cardsInfo", "notesInfo">>

\* C24: every CardRecord the hydrator emits has statistics.ease equal to the
\* factor of its card-level record divided by 1000, whatever the factor.
C24_EaseIsFactorOverThousand ==
    hydration.phase = "returned" =>
        \A i \in DOMAIN hydration.result :
            \E j \in DOMAIN hydration.cardsInfo :
                /\ hydration.cardsInfo[j].cardId = hydration.result[i].id
                /\ IsQuotient(hydration.result[i].statistics.ease,
                              hydration.cardsInfo[j].factor, 1000)

C24_Witness ==
    /\ hydration.phase = "returned"
    /\ Len(hydration.cardsInfo) = 3
    /\ hydration.cardsInfo[3].factor = 2500
    /\ Len(hydration.result) = 3
    /\ IsQuotient(hydration.result[3].statistics.ease, 5, 2)

\* C26: no identifier set survives between invocations. When an invocation
\* starts the server holds no identifier list of an earlier one; every
\* get_leech_cards invocation that passes the availability check issues
\* its own findCards call; and the identifiers and the total it returns
\* are those of the answer to that call.
C26_IdentifiersFetchedFresh ==
    /\ pc \in {"idle", "isAvailable"} =>
          /\ locals.allLeechCardIds = <<>>
          /\ locals.leechCardIds = <<>>
          /\ locals.cardsInfo = <<>>
    /\ (req.name = "get_leech_cards" /\ pc \notin {"idle", "isAvailable"}) =>
          IF call.action = "version" THEN pc = "done" /\ resp.isError
          ELSE /\ Len(issued) >= 2
               /\ issued[2] = Issue("findCards", [query |-> "tag:leech"])
    /\ (LeechPayloadReturned /\ call.action = "findCards") =>
          /\ resp.payload.totalLeechCards = Len(call.result.arr)
          /\ "cardIds" \in DOMAIN resp.payload =>
                \A i \in DOMAIN resp.payload.cardIds :
                    Contains(call.result.arr, resp.payload.cardIds[i])
    /\ (LeechPayloadReturned /\ call.action = "notesInfo") =>
          /\ resp.payload.totalLeechCards = Len(locals.allLeechCardIds)
          /\ issued[3].params.cards = locals.leechCardIds
          /\ \A i \in DOMAIN resp.payload.cards :
                Contains(locals.leechCardIds, resp.payload.cards[i].id)

C26_Witness ==
    /\ LeechPayloadReturned
    /\ ~mockMode
    /\ today = 2
    /\ call.action = "findCards"
    /\ call.result = JArr(<<2>>)
    /\ resp.payload.totalLeechCards = 1
    /\ "cardIds" \in DOMAIN resp.payload
    /\ resp.payload.cardIds = <<2>>

\* the position in the timeline of the hydration at which record k is taken up
TakenUpAt(k) == CHOOSE p \in DOMAIN hydration.timeline : hydration.timeline[p] = EvCard(k)

\* the number of waits of ms milliseconds in the timeline of the hydration
WaitsOf(ms) ==
    Cardinality({p \in DOMAIN hydration.timeline : hydration.timeline[p] = EvDelay(ms)})

\* C27 as stated: in a hydration of n records in groups of 5, a 100 ms wait
\* precedes exactly the records that are not the first of their group, and
\* one 500 ms wait lies between consecutive groups and nowhere else (6
\* records: 4 waits of 100 ms and 1 of 500 ms).
C27_WaitsOnlyWithinGroups ==
    hydration.phase = "returned" =>
        LET n == Len(hydration.cardsInfo)
            t == hydration.timeline
        IN /\ \A k \in 0..(n - 1) :
                 LET p == TakenUpAt(k)
                 IN IF k % 5 = 0
                    THEN p > 1 => t[p - 1] # EvDelay(100)
                    ELSE p > 1 /\ t[p - 1] = EvDelay(100)
           /\ WaitsOf(100) = n - ((n + 4) \div 5)
           /\ WaitsOf(500) = IF n = 0 THEN 0 ELSE ((n + 4) \div 5) - 1
           /\ \A p \in DOMAIN t :
                 t[p] = EvDelay(500) =>
                     /\ p > 1 /\ p < Len(t)
                     /\ t[p - 1].e = "card"
                     /\ t[p - 1].index % 5 = 4

\* the card-level records of the hydration whose note has a note-level record
RecordsWithNote ==
    LET noteIds == {hydration.notesInfoArray[i].noteId : i \in DOMAIN hydration.notesInfoArray}
    IN SelectSeq(hydration.cardsInfo, LAMBDA c : c.note \in noteIds)

\* C29: a card-level record whose note has no note-level record is skipped
\* and the loop goes on: every record is taken up, and the result holds
\* exactly one CardRecord for each card-level record whose note is present,
\* in the order of the card-level records.
C29_MissingNoteSkipsRecord ==
    hydration.phase = "returned" =>
        /\ \A k \in 0..(Len(hydration.cardsInfo) - 1) :
              \E p \in DOMAIN hydration.timeline : hydration.timeline[p] = EvCard(k)
        /\ Len(hydration.result) = Len(RecordsWithNote)
        /\ \A i \in DOMAIN hydration.result :
              /\ hydration.result[i].id = RecordsWithNote[i].cardId
              /\ hydration.result[i].noteId = RecordsWithNote[i].note
              /\ hydration.result[i].deck = RecordsWithNote[i].deckName

C29_Witness ==
    /\ hydration.phase = "returned"
    /\ Len(hydration.cardsInfo) = 7
    /\ Len(hydration.notesInfoArray) = 1
    /\ hydration.notesInfoArray[1].noteId = 102
    /\ hydration.cardsInfo[1].note = 101
    /\ Len(hydration.result) = 3
    /\ hydration.result[1].id = 2
    /\ hydration.result[3].id = 6

\* the calls of a get_leech_cards invocation, in any state
HydrationCallsInOrder ==
    req.name = "get_leech_cards" =>
        /\ \E n \in 0..4 :
              IssuedActionSeq = SubSeq(<<"version", "findCards", "cardsInfo", "notesInfo">>, 1, n)
        /\ Len(issued) >= 3 =>
              /\ Len(locals.leechCardIds) > 0
              /\ issued[3].params = [cards |-> locals.leechCardIds]
        /\ (LeechPayloadReturned /\ "cards" \in DOMAIN resp.payload
              /\ resp.payload.message.returning > 0) => Len(issued) = 4

\* the step that follows the cardsInfo call of the hydrator
HydrationStepIssuesNotesInfo ==
    (pc = "getCardsInfo.cardsInfo" /\ pc' # pc /\ call.state = "returned"
        /\ call.result.t = "array") =>
        /\ pc' = "getCardsInfo.notesInfo"
        /\ Len(issued') = 4
        /\ issued'[4].action = "notesInfo"
        /\ DOMAIN issued'[4].params = {"notes"}
        /\ IsDuplicateFreeNotesOf(issued'[4].params.notes, call.result.arr)

\* C28: a hydration of a non-empty identifier list issues two remote calls
\* and no other: first one cardsInfo call carrying all the requested
\* identifiers, then (once that call has returned its records) one
\* notesInfo call carrying each note the records refer to exactly once;
\* the processing of the records issues no call.
C28_TwoBulkCallsInOrder ==
    /\ []HydrationCallsInOrder
    /\ [][HydrationStepIssuesNotesInfo]_vars

C28_Witness ==
    /\ LeechPayloadReturned
    /\ ~mockMode
    /\ locals.leechCardIds = <<2, 1>>
    /\ IssuedActionSeq = <<"version", "findCards", "cardsInfo", "notesInfo">>
    /\ issued[3].params = [cards |-> <<2, 1>>]
    /\ issued[4].params = [notes |-> <<102>>]
    /\ Len(resp.payload.cards) = 2

\* C30: if the bulk cardsInfo call or the bulk notesInfo call of a
\* hydration fails, the hydration fails with that error and returns no
\* record: the invocation ends with the error envelope that carries the
\* message of that error and no payload, and after a failed cardsInfo call
\* no notesInfo call is issued.
C30_BulkFailureAbortsHydration ==
    (pc = "done" /\ req.name = "get_leech_cards" /\ call.state = "thrown"
        /\ call.action \in {"cardsInfo", "notesInfo"}) =>
        /\ resp = Returned(TRUE, <<"Error: ">> \o call.error.message, NoPayload)
        /\ IssuedActionSeq[Len(issued)] = call.action
        /\ call.action = "cardsInfo" => ~Contains(IssuedActionSeq, "notesInfo")

C30_Witness ==
    /\ pc = "done"
    /\ req.name = "get_leech_cards"
    /\ call.action = "notesInfo"
    /\ call.state = "thrown"
    /\ Rejections(call, "ECONNRESET") = 4
    /\ resp.isError
    /\ resp.payload = NoPayload

----------------------------------------------------------------------------
(* Further properties *)

\* how many times x occurs in s
CountIn(s, x) == Cardinality({i \in DOMAIN s : s[i] = x})

\* a is a rearrangement of b
IsPermutation(a, b) ==
    /\ Len(a) = Len(b)
    /\ \A i \in DOMAIN b : CountIn(a, b[i]) = CountIn(b, b[i])

\* the sequences of count elements of ids taken at distinct positions
OrderedSelections(ids, count) ==
    {[k \in 1..count |-> ids[p[k]]] : p \in DistinctSeqs(DOMAIN ids, count)}

\* the copy the last call of the script shuffled: the array created just
\* before the one it returned
ShuffledCopy == sampler.heap[sampler.selected - 1]

\* C31: whatever the draws, the shuffled copy is a permutation of the
\* identifiers; and for every count above 0 and below the length, every
\* ordered selection of count distinct elements of the list is the output
\* of the sampler for some outcome of the draws (so two calls can differ).
C31_ShuffleReachesEverySelection ==
    /\ (sampler.phase = "selected" /\ sampler.selected # sampler.mockCardIds) =>
          IsPermutation(ShuffledCopy, sampler.original)
    /\ sampler.phase \in {"created", "selected"} =>
          LET ids == sampler.heap[sampler.mockCardIds]
          IN \A count \in 1..(Len(ids) - 1) :
                \A sel \in OrderedSelections(ids, count) :
                   \E d \in Draws(Len(ids)) :
                      ArrayOf(getRandomCardIds(<<ids>>, 1, count, d)) = sel

C31_Witness ==
    /\ sampler.phase = "selected"
    /\ sampler.original = <<3, 1, 2>>
    /\ sampler.count = 2
    /\ ShuffledCopy = <<2, 1, 3>>
    /\ Selected = <<2, 1>>

\* a tag_reviewed_cards invocation has returned a success envelope
TagSucceeded ==
    /\ pc = "done"
    /\ req.name = "tag_reviewed_cards"
    /\ resp.state = "returned"
    /\ ~resp.isError

\* the tag the addTags call of the invocation carried
SentTag == issued[Len(issued)].params.tags

\* C32 as stated: in every successful tag_reviewed_cards response the
\* reported tag_added equals the tag that was sent in the addTags call of
\* that invocation, for every custom_tag_prefix value and also when the
\* local date changes during the invocation.
C32_ReportedTagIsSentTag ==
    TagSucceeded => resp.payload.tag_added = SentTag

\* C33 as stated: whenever the addTags call of a tag_reviewed_cards
\* invocation completes without an error, the invocation returns a success
\* envelope, whatever result (true, false or null) the collaborator gave;
\* once the cards were looked up, an error envelope is returned only if a
\* remote call failed or no note could be resolved.
C33_AddTagsCompletionIsSuccess ==
    (pc = "done" /\ req.name = "tag_reviewed_cards" /\ Len(issued) = 3) =>
        /\ call.state = "returned" => (resp.state = "returned" /\ ~resp.isError)
        /\ (resp.state = "returned" /\ resp.isError) => call.state = "thrown"

\* the count argument of the invocation is a number that is not positive
CountNotPositive ==
    /\ req.arguments.count.t = "number"
    /\ req.arguments.count.num <= 0

\* C34 as stated: a numeric count of get_leech_cards that is zero or
\* negative is treated like an absent count: the ids-only payload lists
\* all the ids the card search returned, and the hydrator is handed all of
\* them, never a proper subset.
C34_NonPositiveCountReturnsAll ==
    (req.name = "get_leech_cards" /\ CountNotPositive) =>
        /\ (LeechPayloadReturned /\ call.action = "findCards" /\ ~locals.detailed) =>
              resp.payload.cardIds = call.result.arr
        /\ (pc = "getCardsInfo.cardsInfo") =>
              locals.leechCardIds = locals.allLeechCardIds

\* the records the loop of the hydrator took up, in order
CardEvents(timeline) == SelectSeq(timeline, LAMBDA ev : ev.e = "card")

\* every invocation that has begun returns
InvocationReturns == (pc # "idle") ~> (pc = "done" /\ resp.state # "none")

\* a transport call makes at most 4 attempts, and while it is in flight it
\* has of its budget of 3 what its own resets have left
RetryBudgetIsOwn ==
    /\ Attempts(call) <= DefaultRetries + 1
    /\ call.state = "inflight" =>
          call.retries = DefaultRetries - Rejections(call, "ECONNRESET")

\* a step that issues a transport call starts it with the full budget
FreshBudget ==
    Len(issued') = Len(issued) + 1 =>
        /\ call'.retries = DefaultRetries
        /\ Attempts(call') <= 1

\* a hydration that returned took up each record once, in order
EachRecordOnce ==
    (pc = "done" /\ req.name = "get_leech_cards" /\ Len(issued) = 4
        /\ call.state = "returned" /\ call.result.t = "array") =>
        CardEvents(locals.timeline) = [k \in 1..Len(locals.cardsInfo) |-> EvCard(k - 1)]

\* C35: if every network attempt eventually completes, every tool
\* invocation eventually returns a response: a transport call ends after
\* at most 4 attempts, each remote call starts with its own retry budget
\* of 3, and a hydration takes up each card-level record exactly once
\* before it returns.
C35_EveryInvocationReturns ==
    /\ InvocationReturns
    /\ []RetryBudgetIsOwn
    /\ [][FreshBudget]_vars
    /\ []EachRecordOnce

C35_Witness ==
    /\ pc = "done"
    /\ req.name = "get_leech_cards"
    /\ Len(issued) = 4
    /\ call.action = "notesInfo"
    /\ call.state = "returned"
    /\ Attempts(call) = 4
    /\ Len(locals.cardsInfo) = 2
    /\ CardEvents(locals.timeline) = <<EvCard(0), EvCard(1)>>
    /\ resp.state = "returned"

====
